---- MODULE Spec2Model ----
(***************************************************************************)
(* Smartlead campaign MCP server: the HTTP client wrapper (src/utils.py)   *)
(* and the tool surface (src/main.py) as a state machine.                  *)
(*                                                                         *)
(* One tool invocation is  idle --tool--> await --response--> done, or     *)
(* idle --tool--> done when the client cannot be resolved from the         *)
(* context.  The tool action runs the tool function up to the network      *)
(* await inside SmartleadClient._request; HttpResponse and                 *)
(* HttpRequestError run the rest of _request and of the tool function.     *)
(*                                                                         *)
(* Spec starts from a constructed client; SpecLifespan starts before       *)
(* smartlead_lifespan runs and ends after its finally clause; SpecRequest  *)
(* calls SmartleadClient._request with arguments no wrapper passes.        *)
(* SpecConcurrent runs several tool invocations together on one client,    *)
(* each with its own frame, interleaved at the awaits of _request.         *)
(***************************************************************************)
EXTENDS Integers, Sequences, FiniteSets, TLC

(***************************************************************************)
(* Python values.  A str is a sequence of symbols: the JSON-significant    *)
(* characters, the digits and the minus sign are one symbol each; a run of *)
(* other characters that the program only ever copies (a word of a body, a *)
(* fixed literal of the program) is one symbol.                            *)
(***************************************************************************)
None == [t |-> "None"]
Bool(b) == [t |-> "bool", b |-> b]
Num(n) == [t |-> "int", n |-> n]
Str(s) == [t |-> "str", s |-> s]
List(a) == [t |-> "list", a |-> a]
Dict(o) == [t |-> "dict", o |-> o]

EmptyDict == Dict(<< >>)

\* keys of a dict, a dict being the sequence of its (key, value) pairs in insertion order
DictKeys(d) == { d.o[i][1] : i \in 1..Len(d.o) }

\* d.get(k, default)
DictGet(d, k, default) ==
    IF k \in DictKeys(d)
    THEN d.o[CHOOSE i \in 1..Len(d.o) : d.o[i][1] = k][2]
    ELSE default

\* d[k] = v
DictSet(d, k, v) ==
    IF k \in DictKeys(d)
    THEN Dict([i \in 1..Len(d.o) |-> IF d.o[i][1] = k THEN <<k, v>> ELSE d.o[i]])
    ELSE Dict(Append(d.o, <<k, v>>))

\* bool(v)
Truthy(v) ==
    CASE v.t = "None" -> FALSE
      [] v.t = "bool" -> v.b
      [] v.t = "int"  -> v.n # 0
      [] v.t = "str"  -> v.s # << >>
      [] v.t = "list" -> v.a # << >>
      [] v.t = "dict" -> v.o # << >>

Digits == <<"0", "1", "2", "3", "4", "5", "6", "7", "8", "9">>
DigitSet == { Digits[i] : i \in 1..10 }
DigitValue(c) == (CHOOSE i \in 1..10 : Digits[i] = c) - 1

RECURSIVE NatToText(_)
NatToText(n) ==
    IF n < 10 THEN << Digits[n + 1] >>
    ELSE NatToText(n \div 10) \o << Digits[(n % 10) + 1] >>

\* str(n) of an int
IntToText(n) == IF n < 0 THEN <<"-">> \o NatToText(0 - n) ELSE NatToText(n)

RECURSIVE Join(_, _)
\* sep.join(parts)
Join(parts, sep) ==
    IF parts = << >> THEN << >>
    ELSE IF Len(parts) = 1 THEN parts[1]
    ELSE parts[1] \o sep \o Join(Tail(parts), sep)

RECURSIVE PyRepr(_)
\* repr(v); a str is shown between single quotes
PyRepr(v) ==
    CASE v.t = "None" -> <<"None">>
      [] v.t = "bool" -> IF v.b THEN <<"True">> ELSE <<"False">>
      [] v.t = "int"  -> IntToText(v.n)
      [] v.t = "str"  -> <<"'">> \o v.s \o <<"'">>
      [] v.t = "list" ->
            <<"[">> \o Join([i \in 1..Len(v.a) |-> PyRepr(v.a[i])], <<",", " ">>) \o <<"]">>
      [] v.t = "dict" ->
            <<"{">>
            \o Join([i \in 1..Len(v.o) |->
                        PyRepr(Str(v.o[i][1])) \o <<":", " ">> \o PyRepr(v.o[i][2])],
                    <<",", " ">>)
            \o <<"}">>

\* str(v)
PyStr(v) == IF v.t = "str" THEN v.s ELSE PyRepr(v)

\* whether text s occurs in text t (s in t)
Contains(t, s) ==
    \E i \in 0..(Len(t) - Len(s)) : \A j \in 1..Len(s) : t[i + j] = s[j]

(***************************************************************************)
(* json.dumps and json.loads (response.json()), on texts.                  *)
(***************************************************************************)
RECURSIVE EscapeText(_)
\* the body of a JSON string literal for the str s
EscapeText(s) ==
    IF s = << >> THEN << >>
    ELSE (CASE Head(s) = "\"" -> <<"\\", "\"">>
            [] Head(s) = "\\" -> <<"\\", "\\">>
            [] Head(s) = "\n" -> <<"\\", "n">>
            [] OTHER -> << Head(s) >>)
         \o EscapeText(Tail(s))

RECURSIVE Spaces(_)
Spaces(n) == IF n <= 0 THEN << >> ELSE <<" ">> \o Spaces(n - 1)

RECURSIVE JsonEncode(_, _, _)
\* json.dumps(v, indent=indent) at nesting depth level; indent < 0 stands for indent=None
JsonEncode(v, indent, level) ==
    LET open(l) == IF indent < 0 THEN << >> ELSE <<"\n">> \o Spaces(indent * l)
        sep == IF indent < 0 THEN <<",", " ">> ELSE <<",">> \o open(level + 1)
    IN  CASE v.t = "None" -> <<"null">>
          [] v.t = "bool" -> IF v.b THEN <<"true">> ELSE <<"false">>
          [] v.t = "int"  -> IntToText(v.n)
          [] v.t = "str"  -> <<"\"">> \o EscapeText(v.s) \o <<"\"">>
          [] v.t = "list" ->
                IF v.a = << >> THEN <<"[", "]">>
                ELSE <<"[">> \o open(level + 1)
                     \o Join([i \in 1..Len(v.a) |-> JsonEncode(v.a[i], indent, level + 1)], sep)
                     \o open(level) \o <<"]">>
          [] v.t = "dict" ->
                IF v.o = << >> THEN <<"{", "}">>
                ELSE <<"{">> \o open(level + 1)
                     \o Join([i \in 1..Len(v.o) |->
                                 <<"\"">> \o EscapeText(v.o[i][1]) \o <<"\"", ":", " ">>
                                 \o JsonEncode(v.o[i][2], indent, level + 1)],
                             sep)
                     \o open(level) \o <<"}">>

\* json.dumps(v, ensure_ascii=False)
json_dumps(v) == JsonEncode(v, -1, 0)

\* json.dumps(v, indent=2)
json_dumps_indent2(v) == JsonEncode(v, 2, 0)

\* a failed parse
NoParse == [ok |-> FALSE, v |-> None, p |-> 0]
Parsed(v, p) == [ok |-> TRUE, v |-> v, p |-> p]

Whitespace == {" ", "\n"}

RECURSIVE SkipWs(_, _)
SkipWs(t, i) == IF i <= Len(t) /\ t[i] \in Whitespace THEN SkipWs(t, i + 1) ELSE i

RECURSIVE ScanDigits(_, _, _)
\* the int made of acc and the digits from position i on, and the position after them
ScanDigits(t, i, acc) ==
    IF i <= Len(t) /\ t[i] \in DigitSet
    THEN ScanDigits(t, i + 1, acc * 10 + DigitValue(t[i]))
    ELSE Parsed(Num(acc), i)

\* an int literal at position i: an optional minus, then 0 or a digit string not starting with 0
ScanNumber(t, i) ==
    LET neg == i <= Len(t) /\ t[i] = "-"
        j == IF neg THEN i + 1 ELSE i
        r == IF j > Len(t) \/ t[j] \notin DigitSet THEN NoParse
             ELSE IF t[j] = "0" THEN Parsed(Num(0), j + 1)
             ELSE ScanDigits(t, j, 0)
    IN  IF r.ok /\ neg THEN Parsed(Num(0 - r.v.n), r.p) ELSE r

RECURSIVE ScanString(_, _, _)
\* the str whose literal's body starts at position i (after the opening quote)
ScanString(t, i, acc) ==
    IF i > Len(t) THEN NoParse
    ELSE IF t[i] = "\"" THEN Parsed(Str(acc), i + 1)
    ELSE IF t[i] = "\n" THEN NoParse
    ELSE IF t[i] = "\\"
         THEN IF i + 1 > Len(t) THEN NoParse
              ELSE IF t[i + 1] = "n" THEN ScanString(t, i + 2, Append(acc, "\n"))
              ELSE IF t[i + 1] \in {"\"", "\\"} THEN ScanString(t, i + 2, Append(acc, t[i + 1]))
              ELSE NoParse
    ELSE ScanString(t, i + 1, Append(acc, t[i]))

RECURSIVE ScanValue(_, _)
RECURSIVE ScanItems(_, _, _)
RECURSIVE ScanPairs(_, _, _)

\* the items of an array after its first item: i is just after an item
ScanItems(t, i, acc) ==
    LET j == SkipWs(t, i)
    IN  IF j > Len(t) THEN NoParse
        ELSE IF t[j] = "]" THEN Parsed(List(acc), j + 1)
        ELSE IF t[j] # "," THEN NoParse
        ELSE LET r == ScanValue(t, SkipWs(t, j + 1))
             IN  IF r.ok THEN ScanItems(t, r.p, Append(acc, r.v)) ELSE NoParse

\* the pairs of an object: i is at the opening quote of a key
ScanPairs(t, i, acc) ==
    IF i > Len(t) \/ t[i] # "\"" THEN NoParse
    ELSE LET k == ScanString(t, i + 1, << >>)
             c == IF k.ok THEN SkipWs(t, k.p) ELSE 0
         IN  IF ~k.ok \/ c > Len(t) \/ t[c] # ":" THEN NoParse
             ELSE LET r == ScanValue(t, SkipWs(t, c + 1))
                      j == IF r.ok THEN SkipWs(t, r.p) ELSE 0
                  IN  IF ~r.ok \/ j > Len(t) THEN NoParse
                      ELSE IF t[j] = "}" THEN Parsed(DictSet(acc, k.v.s, r.v), j + 1)
                      ELSE IF t[j] # "," THEN NoParse
                      ELSE ScanPairs(t, SkipWs(t, j + 1), DictSet(acc, k.v.s, r.v))

\* the JSON value starting at position i
ScanValue(t, i) ==
    IF i > Len(t) THEN NoParse
    ELSE CASE t[i] = "null"  -> Parsed(None, i + 1)
           [] t[i] = "true"  -> Parsed(Bool(TRUE), i + 1)
           [] t[i] = "false" -> Parsed(Bool(FALSE), i + 1)
           [] t[i] = "\""    -> ScanString(t, i + 1, << >>)
           [] t[i] = "["     ->
                 LET j == SkipWs(t, i + 1)
                 IN  IF j <= Len(t) /\ t[j] = "]" THEN Parsed(List(<< >>), j + 1)
                     ELSE LET r == ScanValue(t, j)
                          IN  IF r.ok THEN ScanItems(t, r.p, << r.v >>) ELSE NoParse
           [] t[i] = "{"     ->
                 LET j == SkipWs(t, i + 1)
                 IN  IF j <= Len(t) /\ t[j] = "}" THEN Parsed(EmptyDict, j + 1)
                     ELSE ScanPairs(t, j, EmptyDict)
           [] OTHER -> ScanNumber(t, i)

\* json.loads(t): ok is FALSE where json.JSONDecodeError is raised
json_loads(t) ==
    LET r == ScanValue(t, SkipWs(t, 1))
    IN  IF r.ok /\ SkipWs(t, r.p) > Len(t) THEN r ELSE NoParse

(***************************************************************************)
(* Exceptions.  Every class modelled derives from Exception.               *)
(***************************************************************************)
\* SmartleadAPIError(status_code, message, details)
SmartleadAPIError(status_code, message, details) ==
    [type |-> "SmartleadAPIError", status_code |-> status_code,
     message |-> message, details |-> details]

\* an exception of a builtin or httpx class, str(e) being text
Exception(type, text) ==
    [type |-> type, status_code |-> 0, message |-> Str(text), details |-> None]

ExceptionClasses == {"SmartleadAPIError", "ValueError", "AttributeError", "RequestError"}

\* str(e)
ExcStr(e) ==
    IF e.type = "SmartleadAPIError"
    THEN <<"Smartlead API Error (">> \o IntToText(e.status_code) \o <<"): ">>
         \o PyStr(e.message)
    ELSE e.message.s

\* what a call gives: a value returned or an exception raised
Returns(v) == [raised |-> FALSE, value |-> v, exc |-> Exception("", << >>)]
Raises(e) == [raised |-> TRUE, value |-> None, exc |-> e]

\* type(v).__name__
TypeName(v) == IF v.t = "None" THEN "NoneType" ELSE v.t

(***************************************************************************)
(* src/utils.py: SmartleadClient                                           *)
(***************************************************************************)
DefaultApiUrl == <<"https:", "/", "/", "server.smartlead.ai", "/", "api", "/", "v1">>

DefaultTimeout == 30

\* an httpx.AsyncClient built by its owner with the given timeout
AsyncClient(timeout) == [t |-> "AsyncClient", timeout |-> timeout]

\* the dataclass: http_client is None or an injected AsyncClient
SmartleadClient(api_key, api_url, http_client) ==
    [api_key |-> api_key, api_url |-> api_url, timeout |-> DefaultTimeout,
     http_client |-> http_client]

\* s with one trailing ch removed, as s.removesuffix(ch)
rstrip_One(s, ch) ==
    IF s # << >> /\ s[Len(s)] = ch THEN SubSeq(s, 1, Len(s) - 1) ELSE s

RECURSIVE rstrip(_, _)
rstrip(s, ch) ==
    IF s # << >> /\ s[Len(s)] = ch THEN rstrip(SubSeq(s, 1, Len(s) - 1), ch) ELSE s

RECURSIVE lstrip(_, _)
lstrip(s, ch) == IF s # << >> /\ s[1] = ch THEN lstrip(Tail(s), ch) ELSE s

RECURSIVE DictUpdate_KeepExisting(_, _)
\* for key, value in pairs: d.setdefault(key, value)
DictUpdate_KeepExisting(d, pairs) ==
    IF pairs = << >> THEN d
    ELSE DictUpdate_KeepExisting(
             IF pairs[1][1] \in DictKeys(d) THEN d ELSE DictSet(d, pairs[1][1], pairs[1][2]),
             Tail(pairs))

RECURSIVE DictUpdate(_, _)
\* for key, value in pairs: d[key] = value
DictUpdate(d, pairs) ==
    IF pairs = << >> THEN d
    ELSE DictUpdate(DictSet(d, pairs[1][1], pairs[1][2]), Tail(pairs))

\* the arguments a wrapper passes to _request; params, json_data, headers default to None
RequestArgs(method, endpoint, params, json_data, headers) ==
    [method |-> method, endpoint |-> endpoint, params |-> params,
     json_data |-> json_data, headers |-> headers]

\* _request authenticating with a bearer header instead of the query parameter
RequestSend_KeyInHeader(self, r) ==
    LET url == rstrip(self.api_url, "/") \o <<"/">> \o lstrip(r.endpoint, "/")
        params == IF r.params = None THEN EmptyDict ELSE r.params
        default_headers == Dict(<< << <<"Content-Type">>, Str(<<"application/json">>) >>,
                                   << <<"Accept">>, Str(<<"application/json">>) >>,
                                   << <<"Authorization">>,
                                      Str(<<"Bearer ">> \o self.api_key) >> >>)
        merged == IF Truthy(r.headers) THEN DictUpdate(default_headers, r.headers.o)
                  ELSE default_headers
        close_client == self.http_client = None
    IN  [method |-> r.method, url |-> url, params |-> params, json |-> r.json_data,
         headers |-> merged,
         timeout |-> IF close_client THEN self.timeout ELSE self.http_client.timeout,
         close_client |-> close_client]

\* _request adding api_key only when the caller's query has none
RequestSend_CallerKeyWins(self, r) ==
    LET url == rstrip(self.api_url, "/") \o <<"/">> \o lstrip(r.endpoint, "/")
        params0 == IF r.params = None THEN EmptyDict ELSE r.params
        params == IF <<"api_key">> \in DictKeys(params0) THEN params0
                  ELSE DictSet(params0, <<"api_key">>, Str(self.api_key))
        default_headers == Dict(<< << <<"Content-Type">>, Str(<<"application/json">>) >>,
                                   << <<"Accept">>, Str(<<"application/json">>) >> >>)
        merged == IF Truthy(r.headers) THEN DictUpdate(default_headers, r.headers.o)
                  ELSE default_headers
        close_client == self.http_client = None
    IN  [method |-> r.method, url |-> url, params |-> params, json |-> r.json_data,
         headers |-> merged,
         timeout |-> IF close_client THEN self.timeout ELSE self.http_client.timeout,
         close_client |-> close_client]

\* _request up to the await: the HTTP request put on the wire and the connection used
RequestSend(self, r) ==
    LET url == rstrip(self.api_url, "/") \o <<"/">> \o lstrip(r.endpoint, "/")
        params0 == IF r.params = None THEN EmptyDict ELSE r.params
        params == DictSet(params0, <<"api_key">>, Str(self.api_key))
        default_headers == Dict(<< << <<"Content-Type">>, Str(<<"application/json">>) >>,
                                   << <<"Accept">>, Str(<<"application/json">>) >> >>)
        merged == IF Truthy(r.headers) THEN DictUpdate(default_headers, r.headers.o)
                  ELSE default_headers
        close_client == self.http_client = None
    IN  [method |-> r.method, url |-> url, params |-> params, json |-> r.json_data,
         headers |-> merged,
         timeout |-> IF close_client THEN self.timeout ELSE self.http_client.timeout,
         close_client |-> close_client]

\* _request treating a body that is not JSON as a failure of the call
RequestReceive_RejectNonJson(status_code, text) ==
    LET parsed == json_loads(text)
    IN  IF ~parsed.ok
        THEN Raises(SmartleadAPIError(status_code, Str(<<"Invalid JSON response">>), None))
        ELSE IF status_code >= 400
        THEN Raises(SmartleadAPIError(
                 status_code,
                 DictGet(parsed.v, <<"message">>, Str(<<"Unknown error">>)),
                 DictGet(parsed.v, <<"errors">>, EmptyDict)))
        ELSE Returns(parsed.v)

\* _request examining the status before it decodes the body
RequestReceive_StatusFirst(status_code, text) ==
    LET parsed == json_loads(text)
    IN  IF status_code >= 400
        THEN IF parsed.ok /\ parsed.v.t = "dict"
             THEN Raises(SmartleadAPIError(
                      status_code,
                      DictGet(parsed.v, <<"message">>, Str(<<"Unknown error">>)),
                      DictGet(parsed.v, <<"errors">>, EmptyDict)))
             ELSE Raises(SmartleadAPIError(status_code, Str(<<"Unknown error">>), EmptyDict))
        ELSE Returns(IF parsed.ok THEN parsed.v
                     ELSE Dict(<< << <<"message">>, Str(text) >> >>))

\* _request after the await, on a response: the value returned or the exception raised
RequestReceive(status_code, text) ==
    LET parsed == json_loads(text)
        response_data == IF parsed.ok THEN parsed.v
                         ELSE Dict(<< << <<"message">>, Str(text) >> >>)
    IN  IF status_code >= 400
        THEN IF response_data.t # "dict"
             THEN Raises(Exception("AttributeError",
                                   <<"'", TypeName(response_data), "'",
                                     " object has no attribute 'get'">>))
             ELSE Raises(SmartleadAPIError(
                      status_code,
                      DictGet(response_data, <<"message">>, Str(<<"Unknown error">>)),
                      DictGet(response_data, <<"errors">>, EmptyDict)))
        ELSE Returns(response_data)

\* _request letting httpx.RequestError through instead of wrapping it
RequestFailed_Unwrapped(text) == Raises(Exception("RequestError", text))

\* _request after the await, on httpx.RequestError e, text being str(e)
RequestFailed(text) ==
    Raises(SmartleadAPIError(500, Str(<<"Request error: ">> \o text), None))

(***************************************************************************)
(* The per-operation wrappers.  a is the record of the method's arguments, *)
(* an optional argument left unset being None.                             *)
(***************************************************************************)
RECURSIVE FoldPresent_SendNull(_, _, _)
\* the fold without the presence test: data[k] = a[k] for every k, None included
FoldPresent_SendNull(data, a, keys) ==
    IF keys = << >> THEN data
    ELSE FoldPresent_SendNull(DictSet(data, << Head(keys) >>, a[Head(keys)]), a, Tail(keys))

RECURSIVE FoldPresent(_, _, _)
\* if a[k] is not None: data[k] = a[k], for each k of keys in turn
FoldPresent(data, a, keys) ==
    IF keys = << >> THEN data
    ELSE FoldPresent(IF a[Head(keys)] # None
                     THEN DictSet(data, << Head(keys) >>, a[Head(keys)])
                     ELSE data,
                     a, Tail(keys))

SmartleadClient_list_campaigns(a) ==
    RequestArgs("GET", <<"campaigns", "/">>, None, None, None)

SmartleadClient_get_campaign(a) ==
    RequestArgs("GET", <<"campaigns", "/">> \o PyStr(a.campaign), None, None, None)

SmartleadClient_create_campaign(a) ==
    RequestArgs("POST", <<"campaigns", "/", "create">>, None, a.campaign_data, None)

ScheduleOptional == <<"min_time_btw_emails", "max_new_leads_per_day", "schedule_start_time">>

\* the wrapper filling in the documented default of min_time_btw_emails when it is unset
SmartleadClient_update_campaign_schedule_Defaulting(a) ==
    LET data == Dict(<< << <<"timezone">>, a.timezone >>,
                        << <<"days_of_the_week">>, a.days_of_the_week >>,
                        << <<"start_hour">>, a.start_hour >>,
                        << <<"end_hour">>, a.end_hour >>,
                        << <<"min_time_btw_emails">>,
                           IF a.min_time_btw_emails = None THEN Num(10)
                           ELSE a.min_time_btw_emails >> >>)
    IN  RequestArgs("POST",
                    <<"campaigns", "/">> \o PyStr(a.campaign_id) \o <<"/", "schedule">>,
                    None,
                    FoldPresent(data, a, <<"max_new_leads_per_day", "schedule_start_time">>),
                    None)

SmartleadClient_update_campaign_schedule(a) ==
    LET data == Dict(<< << <<"timezone">>, a.timezone >>,
                        << <<"days_of_the_week">>, a.days_of_the_week >>,
                        << <<"start_hour">>, a.start_hour >>,
                        << <<"end_hour">>, a.end_hour >> >>)
    IN  RequestArgs("POST",
                    <<"campaigns", "/">> \o PyStr(a.campaign_id) \o <<"/", "schedule">>,
                    None, FoldPresent(data, a, ScheduleOptional), None)

SettingsOptional ==
    <<"name", "track_settings", "stop_lead_settings", "unsubscribe_text",
      "send_as_plain_text", "force_plain_text", "enable_ai_esp_matching",
      "follow_up_percentage", "client_id", "add_unsubscribe_tag",
      "auto_pause_domain_leads_on_reply", "ignore_ss_mailbox_sending_limit",
      "bounce_autopause_threshold", "out_of_office_detection_settings",
      "ai_categorisation_options">>

SmartleadClient_update_campaign_settings(a) ==
    RequestArgs("POST",
                <<"campaigns", "/">> \o PyStr(a.campaign_id) \o <<"/", "settings">>,
                None, FoldPresent(EmptyDict, a, SettingsOptional), None)

SmartleadClient_save_campaign_sequence(a) ==
    RequestArgs("POST",
                <<"campaigns", "/">> \o PyStr(a.campaign_id) \o <<"/", "sequences">>,
                None, Dict(<< << <<"sequences">>, a.sequences >> >>), None)

\* the wrapper using the method its name suggests
SmartleadClient_patch_campaign_status_Patch(a) ==
    RequestArgs("PATCH",
                <<"campaigns", "/">> \o PyStr(a.campaign_id) \o <<"/", "status">>,
                None, Dict(<< << <<"status">>, a.status >> >>), None)

SmartleadClient_patch_campaign_status(a) ==
    RequestArgs("POST",
                <<"campaigns", "/">> \o PyStr(a.campaign_id) \o <<"/", "status">>,
                None, Dict(<< << <<"status">>, a.status >> >>), None)

SmartleadClient_get_campaign_analytics(a) ==
    RequestArgs("GET",
                <<"campaigns", "/">> \o PyStr(a.campaignId) \o <<"/", "analytics-by-date">>,
                Dict(<< << <<"start_date">>, a.start_date >>,
                        << <<"end_date">>, a.end_date >> >>),
                None, None)

\* get_campaign_sequence reading the sequence with the method and path of another endpoint
SmartleadClient_get_campaign_sequence_Singular(a) ==
    RequestArgs("POST",
                <<"campaigns", "/">> \o PyStr(a.campaign_id) \o <<"/", "sequence">>,
                None, None, None)

SmartleadClient_get_campaign_sequence(a) ==
    RequestArgs("GET",
                <<"campaigns", "/">> \o PyStr(a.campaign_id) \o <<"/", "sequences">>,
                None, None, None)

SmartleadClient_get_campaigns_by_lead_id(a) ==
    RequestArgs("GET", <<"leads", "/">> \o PyStr(a.lead_id) \o <<"/", "campaigns">>,
                None, None, None)

SmartleadClient_export_campaign_data(a) ==
    RequestArgs("GET",
                <<"campaigns", "/">> \o PyStr(a.campaign_id) \o <<"/", "leads-export">>,
                None, None, Dict(<< << <<"Accept">>, Str(<<"text/plain">>) >> >>))

SmartleadClient_get_campaign_sequence_analytics(a) ==
    LET params == Dict(<< << <<"start_date">>, a.start_date >>,
                          << <<"end_date">>, a.end_date >> >>)
    IN  RequestArgs("GET",
                    <<"campaigns", "/">> \o PyStr(a.campaign_id)
                        \o <<"/", "sequence-analytics">>,
                    IF Truthy(a.time_zone)
                    THEN DictSet(params, <<"time_zone">>, a.time_zone)
                    ELSE params,
                    None, None)

(***************************************************************************)
(* src/utils.py: the helpers of the tool surface                           *)
(***************************************************************************)
\* format_response casting every value with str()
format_response_StrCast(data) == PyStr(data)

\* format_response serialising with indent=2
format_response_Pretty(data) ==
    IF data.t \in {"dict", "list"} THEN json_dumps_indent2(data) ELSE PyStr(data)

\* format_response(data)
format_response(data) ==
    IF data.t \in {"dict", "list"} THEN json_dumps(data) ELSE PyStr(data)

\* the shapes of ctx.request_context a tool can be called with
Contexts == {"client", "no_lifespan_context", "no_smartlead_client", "not_a_SmartleadClient"}

\* get_client_from_context without the isinstance test
get_client_from_context_NoTypeCheck(ctx) ==
    IF ctx = "no_lifespan_context"
    THEN Raises(Exception("ValueError", <<"Request context not properly initialized">>))
    ELSE IF ctx = "no_smartlead_client"
    THEN Raises(Exception("ValueError", <<"Smartlead client not found in context">>))
    ELSE Returns(None)

\* get_client_from_context(ctx): returns the client (None here) or raises ValueError
get_client_from_context(ctx) ==
    IF ctx = "no_lifespan_context"
    THEN Raises(Exception("ValueError", <<"Request context not properly initialized">>))
    ELSE IF ctx = "no_smartlead_client"
    THEN Raises(Exception("ValueError", <<"Smartlead client not found in context">>))
    ELSE IF ctx = "not_a_SmartleadClient"
    THEN Raises(Exception("ValueError", <<"Invalid Smartlead client type in context">>))
    ELSE Returns(None)

\* handle_api_error formatting every exception alike, without the status code
handle_api_error_NoStatus(e) ==
    IF e.type = "SmartleadAPIError"
    THEN <<"Error: ">> \o PyStr(e.message)
         \o (IF Truthy(e.details)
             THEN <<"\n", "Details: ">> \o json_dumps_indent2(e.details)
             ELSE << >>)
    ELSE <<"Error: ">> \o ExcStr(e)

\* handle_api_error(e)
handle_api_error(e) ==
    IF e.type = "SmartleadAPIError"
    THEN <<"Error (">> \o IntToText(e.status_code) \o <<"): ">> \o PyStr(e.message)
         \o (IF Truthy(e.details)
             THEN <<"\n", "Details: ">> \o json_dumps_indent2(e.details)
             ELSE << >>)
    ELSE <<"Error: ">> \o ExcStr(e)

(***************************************************************************)
(* src/main.py: the body shared by the twelve tool functions               *)
(***************************************************************************)
\* how a tool invocation ends: a str returned to the agent, or an exception propagated
Returned(text) == [kind |-> "str", text |-> text, exc |-> Exception("", << >>)]
Propagated(e) == [kind |-> "raise", text |-> << >>, exc |-> e]
NoResult == [kind |-> "none", text |-> << >>, exc |-> Exception("", << >>)]

\* the tool body catching SmartleadAPIError only
ToolBoundary_OnlyAPIError(outcome) ==
    IF ~outcome.raised THEN Returned(format_response(outcome.value))
    ELSE IF outcome.exc.type = "SmartleadAPIError"
    THEN Returned(handle_api_error(outcome.exc))
    ELSE Propagated(outcome.exc)

\* try: ...; return format_response(response)  except Exception as e: return handle_api_error(e)
ToolBoundary(outcome) ==
    IF ~outcome.raised THEN Returned(format_response(outcome.value))
    ELSE IF outcome.exc.type \in ExceptionClasses THEN Returned(handle_api_error(outcome.exc))
    ELSE Propagated(outcome.exc)

(***************************************************************************)
(* The inputs: the clients that can be constructed, the arguments a tool   *)
(* can be called with, and what the remote service can answer.             *)
(***************************************************************************)
\* how many optional arguments one update_campaign_settings call provides at most
MaxProvided == 1

Q == "\""

\* the client of smartlead_lifespan (no connection injected) for two values of
\* SMARTLEAD_API_URL, and a client built with an injected connection
Clients ==
    { SmartleadClient(<<"key-1">>, DefaultApiUrl, None),
      SmartleadClient(<<"key-2">>, DefaultApiUrl \o <<"/", "/">>, None),
      SmartleadClient(<<"key-1">>, DefaultApiUrl \o <<"/">>, AsyncClient(5)) }

Ids == { Str(<<"1", "2", "3">>), Str(<<"7">>) }

Dates == << Str(<<"2", "0", "2", "5", "-", "0", "1", "-", "2", "9">>),
            Str(<<"2", "0", "2", "5", "-", "0", "2", "-", "2", "5">>) >>

CampaignData ==
    { Dict(<< << <<"name">>, Str(<<"Test email campaign">>) >> >>),
      Dict(<< << <<"name">>, Str(<< >>) >>, << <<"client_id">>, None >> >>) }

\* the values an optional argument is given when provided: a falsy one, then a truthy one
OptionalValues(k) ==
    CASE k \in {"name", "stop_lead_settings", "unsubscribe_text", "schedule_start_time"} ->
            << Str(<< >>), Str(<<"REPLY_TO_AN_EMAIL">>) >>
      [] k \in {"time_zone"} -> << Str(<< >>), Str(<<"Europe", "/", "London">>) >>
      [] k \in {"bounce_autopause_threshold"} -> << Str(<< >>), Str(<<"5">>) >>
      [] k \in {"track_settings"} ->
            << List(<< >>), List(<< Str(<<"DONT_TRACK_EMAIL_OPEN">>) >>) >>
      [] k \in {"ai_categorisation_options"} -> << List(<< >>), List(<< Num(2), Num(7) >>) >>
      [] k \in {"out_of_office_detection_settings"} ->
            << EmptyDict, Dict(<< << <<"ignoreOOOasReply">>, Bool(TRUE) >> >>) >>
      [] k \in {"follow_up_percentage", "client_id", "min_time_btw_emails",
                "max_new_leads_per_day"} -> << Num(0), Num(40) >>
      [] OTHER -> << Bool(FALSE), Bool(TRUE) >>

\* None, or one of the two values of the optional argument k
OptionalChoices(k) == {None, OptionalValues(k)[1], OptionalValues(k)[2]}

Range(f) == { f[i] : i \in DOMAIN f }

\* the argument records of update_campaign_schedule: every choice of the three optionals
ScheduleArgs ==
    { [ctx |-> c, campaign_id |-> id,
       timezone |-> Str(<<"Australia", "/", "Sydney">>),
       days_of_the_week |-> List(<< Num(1), Num(2), Num(3), Num(4), Num(5) >>),
       start_hour |-> Str(<<"1", "0", ":", "0", "0">>),
       end_hour |-> Str(<<"2", "3", ":", "0", "0">>),
       min_time_btw_emails |-> m, max_new_leads_per_day |-> l, schedule_start_time |-> t] :
      c \in Contexts, id \in Ids,
      m \in OptionalChoices("min_time_btw_emails"),
      l \in OptionalChoices("max_new_leads_per_day"),
      t \in OptionalChoices("schedule_start_time") }

\* the argument records of update_campaign_settings: at most MaxProvided optionals provided
SettingsArgs ==
    UNION { UNION { { [k \in {"ctx", "campaign_id"} \cup Range(SettingsOptional) |->
                          IF k = "ctx" THEN c
                          ELSE IF k = "campaign_id" THEN Str(<<"1", "2", "3">>)
                          ELSE IF k \in P THEN OptionalValues(k)[pick[k]]
                          ELSE None] :
                      pick \in [P -> {1, 2}] } :
                    P \in { X \in SUBSET Range(SettingsOptional) :
                              Cardinality(X) <= MaxProvided } } :
            c \in Contexts }

Statuses == {200, 399, 400, 503}

\* response bodies: JSON objects, arrays and primitives, and texts that are not JSON
Bodies ==
    { <<"{", Q, "ok", Q, ":", " ", "true", "}">>,
      <<"{", Q, "ok", Q, ":", "true", "}">>,
      <<"{", Q, "ok", Q, ":", "true", ",", Q, "data", Q, ":", "[", "1", ",", "-", "2", "0", "]", "}">>,
      <<"{", Q, "message", Q, ":", " ", Q, "Campaign not found", Q, "}">>,
      <<"{", Q, "message", Q, ":", Q, "Invalid", Q, ",", Q, "errors", Q, ":",
        "{", Q, "status", Q, ":", "[", Q, "a", "\\", "n", "b", Q, "]", "}", "}">>,
      <<"{", Q, "error", Q, ":", " ", Q, "Forbidden", Q, ",", " ", Q, "errors", Q, ":", " ", "[", "]", "}">>,
      <<"{", Q, "message", Q, ":", " ", "null", "}">>,
      <<"[", "]">>,
      <<"[", "{", Q, "id", Q, ":", " ", "3", "7", "2", "}", ",", " ", Q, "x", Q, "]", "\n">>,
      <<Q, "PAUSED", Q>>,
      <<Q, "1", "2", Q>>,
      <<"4", "2">>,
      <<"true">>,
      <<"null">>,
      <<"id", ",", "email", "\n", "1", ",", "a@b.c">>,
      <<"Bad Gateway">>,
      << >> }

\* str(e) of the httpx.RequestError a failed HTTP call raises
RequestErrors == { <<"timed out">>, <<"All connection attempts failed">>, << >> }

(***************************************************************************)
(* The state machine.                                                      *)
(***************************************************************************)
VARIABLES
    client,     \* the SmartleadClient of the lifespan context
    pc,         \* "idle", "await" (suspended at client.request), "done"
    tool,       \* the tool function being run
    args,       \* its arguments
    wire,       \* the HTTP requests this invocation has issued
    conn,       \* the connection _request opened itself: "none", "open", "closed"
    response,   \* what came back from the HTTP call
    outcome,    \* what the client operation gave the tool: a value or an exception
    result,     \* how the tool invocation ended
    injected,   \* the connection handed to the client: "absent", "open", "closed"
    lifespan,   \* where smartlead_lifespan is, and the exception it raised
    env,        \* the process environment
    calls,      \* the tool invocations in flight together, each with its own frame
    pool        \* the connections the in-flight invocations have opened

vars == << client, pc, tool, args, wire, conn, response, outcome, result,
           injected, lifespan, env, calls, pool >>

\* the state of the invocations run together, and the frame of the one run alone
concurrent == << calls, pool >>
sequential == << pc, tool, args, wire, conn, response, outcome, result >>

NoArgs == [ctx |-> "client"]
NoResponse == [kind |-> "none", status_code |-> 0, text |-> << >>]
NoOutcome == [raised |-> FALSE, value |-> None, exc |-> Exception("none", << >>)]

\* smartlead_lifespan: "start" before it runs, "failed" when startup raised, "serving"
\* at the yield, "exited" when the finally clause completed, "exit_raised" when it raised
Lifespan(at, exc) == [at |-> at, exc |-> exc]

\* os.environ restricted to the two variables the program reads; None is unset
Environ(api_key, api_url) == [SMARTLEAD_API_KEY |-> api_key, SMARTLEAD_API_URL |-> api_url]

\* the state of the connection a client was constructed with
InjectedOf(c) == IF c.http_client = None THEN "absent" ELSE "open"

Init ==
    /\ client \in Clients
    /\ injected = InjectedOf(client)
    /\ lifespan = Lifespan("serving", NoOutcome.exc)
    /\ env = Environ(Str(client.api_key), Str(client.api_url))
    /\ pc = "idle"
    /\ tool = "none"
    /\ args = NoArgs
    /\ wire = << >>
    /\ conn = "none"
    /\ response = NoResponse
    /\ outcome = NoOutcome
    /\ result = NoResult
    /\ calls = << >>
    /\ pool = << >>

\* a tool function called with arguments a, r being what its client method passes to
\* _request: runs to the await of client.request, or to its end when the context
\* does not yield the client
Invoke(name, a, r) ==
    LET got == get_client_from_context(a.ctx)
    IN  /\ lifespan.at = "serving"
        /\ tool' = name
        /\ args' = a
        /\ UNCHANGED << client, response, injected, lifespan, env, concurrent >>
        /\ IF got.raised
           THEN /\ pc' = "done"
                /\ outcome' = got
                /\ result' = ToolBoundary(got)
                /\ UNCHANGED << wire, conn >>
           ELSE /\ pc' = "await"
                /\ wire' = Append(wire, RequestSend(client, r))
                /\ conn' = IF RequestSend(client, r).close_client THEN "open" ELSE conn
                /\ UNCHANGED << outcome, result >>

list_campaigns ==
    /\ pc = "idle"
    /\ \E a \in { [ctx |-> c] : c \in Contexts } :
           Invoke("list_campaigns", a, SmartleadClient_list_campaigns(a))

get_campaign ==
    /\ pc = "idle"
    /\ \E a \in { [ctx |-> c, campaign |-> id] : c \in Contexts, id \in Ids } :
           Invoke("get_campaign", a, SmartleadClient_get_campaign(a))

create_campaign ==
    /\ pc = "idle"
    /\ \E a \in { [ctx |-> c, campaign_data |-> d] : c \in Contexts, d \in CampaignData } :
           Invoke("create_campaign", a, SmartleadClient_create_campaign(a))

update_campaign_schedule ==
    /\ pc = "idle"
    /\ \E a \in ScheduleArgs :
           Invoke("update_campaign_schedule", a, SmartleadClient_update_campaign_schedule(a))

update_campaign_settings ==
    /\ pc = "idle"
    /\ \E a \in SettingsArgs :
           Invoke("update_campaign_settings", a, SmartleadClient_update_campaign_settings(a))

save_campaign_sequence ==
    /\ pc = "idle"
    /\ \E a \in { [ctx |-> c, campaign_id |-> id, sequences |-> q] :
                  c \in Contexts, id \in Ids,
                  q \in { List(<< >>),
                          List(<< Dict(<< << <<"seq_number">>, Num(1) >>,
                                          << <<"subject">>, Str(<< >>) >> >>) >>) } } :
           Invoke("save_campaign_sequence", a, SmartleadClient_save_campaign_sequence(a))

patch_campaign_status ==
    /\ pc = "idle"
    /\ \E a \in { [ctx |-> c, campaign_id |-> id, status |-> Str(<< st >>)] :
                  c \in Contexts, id \in Ids, st \in {"PAUSED", "STOPPED", "START"} } :
           Invoke("patch_campaign_status", a, SmartleadClient_patch_campaign_status(a))

get_campaign_analytics ==
    /\ pc = "idle"
    /\ \E a \in { [ctx |-> c, campaignId |-> id, start_date |-> Dates[1],
                   end_date |-> Dates[2]] : c \in Contexts, id \in Ids } :
           Invoke("get_campaign_analytics", a, SmartleadClient_get_campaign_analytics(a))

get_campaign_sequence ==
    /\ pc = "idle"
    /\ \E a \in { [ctx |-> c, campaign_id |-> id] : c \in Contexts, id \in Ids } :
           Invoke("get_campaign_sequence", a, SmartleadClient_get_campaign_sequence(a))

get_campaigns_by_lead_id ==
    /\ pc = "idle"
    /\ \E a \in { [ctx |-> c, lead_id |-> id] : c \in Contexts, id \in Ids } :
           Invoke("get_campaigns_by_lead_id", a, SmartleadClient_get_campaigns_by_lead_id(a))

export_campaign_data ==
    /\ pc = "idle"
    /\ \E a \in { [ctx |-> c, campaign_id |-> id] : c \in Contexts, id \in Ids } :
           Invoke("export_campaign_data", a, SmartleadClient_export_campaign_data(a))

get_campaign_sequence_analytics ==
    /\ pc = "idle"
    /\ \E a \in { [ctx |-> c, campaign_id |-> id, start_date |-> Dates[1],
                   end_date |-> Dates[2], time_zone |-> tz] :
                  c \in Contexts, id \in Ids, tz \in OptionalChoices("time_zone") } :
           Invoke("get_campaign_sequence_analytics", a,
                  SmartleadClient_get_campaign_sequence_analytics(a))

\* the finally clause of _request closing the connection in use whoever owns it
CloseClient_Always(close_client, conns) ==
    IF conns.conn = "open" THEN [conns EXCEPT !.conn = "closed"]
    ELSE [conns EXCEPT !.injected = "closed"]

\* _request without its finally clause
CloseClient_Never(close_client, conns) == conns

\* the finally clause of _request: if close_client: await client.aclose()
CloseClient(close_client, conns) ==
    IF close_client THEN [conns EXCEPT !.conn = "closed"] ELSE conns

\* _request issuing the request a second time when the first attempt fails
Resume_RetryOnce(got) ==
    IF got.raised /\ Len(wire) < 2
    THEN /\ wire' = Append(wire, wire[Len(wire)])
         /\ pc' = "await"
         /\ UNCHANGED << client, tool, args, conn, outcome, result, injected, lifespan, env, concurrent >>
    ELSE LET conns == CloseClient(wire[Len(wire)].close_client,
                                  [conn |-> conn, injected |-> injected])
         IN  /\ conn' = conns.conn
             /\ injected' = conns.injected
             /\ outcome' = got
             /\ result' = IF tool = "_request" THEN NoResult ELSE ToolBoundary(got)
             /\ pc' = "done"
             /\ UNCHANGED << client, tool, args, wire, lifespan, env, concurrent >>

\* _request lengthening the client's timeout after a failed call
Resume_Backoff(got) ==
    LET conns == CloseClient(wire[Len(wire)].close_client,
                             [conn |-> conn, injected |-> injected])
    IN  /\ conn' = conns.conn
        /\ injected' = conns.injected
        /\ outcome' = got
        /\ result' = IF tool = "_request" THEN NoResult ELSE ToolBoundary(got)
        /\ pc' = "done"
        /\ client' = IF got.raised THEN [client EXCEPT !.timeout = 2 * @] ELSE client
        /\ UNCHANGED << tool, args, wire, lifespan, env, concurrent >>

\* the rest of _request and of its caller once client.request is over, got being what
\* _request gives; a tool function turns it into its result
Resume(got) ==
    LET conns == CloseClient(wire[Len(wire)].close_client,
                             [conn |-> conn, injected |-> injected])
    IN  /\ conn' = conns.conn
        /\ injected' = conns.injected
        /\ outcome' = got
        /\ result' = IF tool = "_request" THEN NoResult ELSE ToolBoundary(got)
        /\ pc' = "done"
        /\ UNCHANGED << client, tool, args, wire, lifespan, env, concurrent >>

\* client.request returns a response
HttpResponse ==
    /\ pc = "await"
    /\ \E status_code \in Statuses, text \in Bodies :
          /\ response' = [kind |-> "response", status_code |-> status_code, text |-> text]
          /\ Resume(RequestReceive(status_code, text))

\* client.request raises httpx.RequestError
HttpRequestError ==
    /\ pc = "await"
    /\ \E text \in RequestErrors :
          /\ response' = [kind |-> "RequestError", status_code |-> 0, text |-> text]
          /\ Resume(RequestFailed(text))

\* the result is handed to the agent; the request descriptor and the error are discarded
Return ==
    /\ pc = "done"
    /\ pc' = "idle"
    /\ tool' = "none"
    /\ args' = NoArgs
    /\ wire' = << >>
    /\ conn' = "none"
    /\ response' = NoResponse
    /\ outcome' = NoOutcome
    /\ result' = NoResult
    /\ UNCHANGED << client, injected, lifespan, env, concurrent >>

Next ==
    \/ list_campaigns
    \/ get_campaign
    \/ create_campaign
    \/ update_campaign_schedule
    \/ update_campaign_settings
    \/ save_campaign_sequence
    \/ patch_campaign_status
    \/ get_campaign_analytics
    \/ get_campaign_sequence
    \/ get_campaigns_by_lead_id
    \/ export_campaign_data
    \/ get_campaign_sequence_analytics
    \/ HttpResponse
    \/ HttpRequestError
    \/ Return

Spec == Init /\ [][Next]_vars

(***************************************************************************)
(* src/main.py: smartlead_lifespan, the server from startup to shutdown.   *)
(***************************************************************************)
\* os.getenv(var, default)
getenv(e, var, default) == IF e[var] = None THEN default ELSE e[var]

\* validate_environment rejecting only an unset variable
validate_environment_OnlyUnset(e) ==
    LET required_vars == <<"SMARTLEAD_API_KEY">>
        missing_vars == SelectSeq(required_vars, LAMBDA var : getenv(e, var, None) = None)
    IN  IF missing_vars # << >>
        THEN Raises(Exception("ValueError",
                              <<"Missing required environment variables: ">>
                                  \o Join([i \in DOMAIN missing_vars |-> << missing_vars[i] >>],
                                          <<", ">>)))
        ELSE Returns(None)

validate_environment(e) ==
    LET required_vars == <<"SMARTLEAD_API_KEY">>
        missing_vars == SelectSeq(required_vars, LAMBDA var : ~Truthy(getenv(e, var, None)))
    IN  IF missing_vars # << >>
        THEN Raises(Exception("ValueError",
                              <<"Missing required environment variables: ">>
                                  \o Join([i \in DOMAIN missing_vars |-> << missing_vars[i] >>],
                                          <<", ">>)))
        ELSE Returns(None)

\* the names an instance of the SmartleadClient dataclass answers to
SmartleadClientAttributes ==
    { "api_key", "api_url", "timeout", "http_client", "_request",
      "list_campaigns", "get_campaign", "create_campaign", "update_campaign_schedule",
      "update_campaign_settings", "save_campaign_sequence", "patch_campaign_status",
      "get_campaign_analytics", "get_campaign_sequence", "get_campaigns_by_lead_id",
      "export_campaign_data", "get_campaign_sequence_analytics" }

Environs ==
    { Environ(k, u) : k \in {None, Str(<< >>), Str(<<"key-1">>)},
                      u \in {None, Str(<<"https:", "/", "/", "proxy.test", "/">>)} }

InitLifespan ==
    /\ env \in Environs
    /\ lifespan = Lifespan("start", NoOutcome.exc)
    /\ client = None
    /\ injected = "absent"
    /\ pc = "idle"
    /\ tool = "none"
    /\ args = NoArgs
    /\ wire = << >>
    /\ conn = "none"
    /\ response = NoResponse
    /\ outcome = NoOutcome
    /\ result = NoResult
    /\ calls = << >>
    /\ pool = << >>

\* smartlead_lifespan up to its yield
smartlead_lifespan_enter ==
    /\ lifespan.at = "start"
    /\ LET checked == validate_environment(env)
           api_key == getenv(env, "SMARTLEAD_API_KEY", None)
           api_url == getenv(env, "SMARTLEAD_API_URL", Str(DefaultApiUrl))
       IN  IF checked.raised
           THEN /\ lifespan' = Lifespan("failed", checked.exc)
                /\ UNCHANGED << client, injected >>
           ELSE /\ client' = SmartleadClient(api_key.s, api_url.s, None)
                /\ injected' = InjectedOf(client')
                /\ lifespan' = Lifespan("serving", NoOutcome.exc)
    /\ UNCHANGED << pc, tool, args, wire, conn, response, outcome, result, env, concurrent >>

\* smartlead_lifespan resumed after its yield: await smartlead_client.close()
smartlead_lifespan_exit ==
    /\ lifespan.at = "serving"
    /\ lifespan' =
          IF "close" \in SmartleadClientAttributes
          THEN Lifespan("exited", NoOutcome.exc)
          ELSE Lifespan("exit_raised",
                        Exception("AttributeError",
                                  <<"'SmartleadClient' object has no attribute 'close'">>))
    /\ UNCHANGED << client, pc, tool, args, wire, conn, response, outcome, result,
                    injected, env, concurrent >>

NextLifespan ==
    \/ smartlead_lifespan_enter
    \/ list_campaigns
    \/ get_campaign
    \/ create_campaign
    \/ update_campaign_schedule
    \/ update_campaign_settings
    \/ save_campaign_sequence
    \/ patch_campaign_status
    \/ get_campaign_analytics
    \/ get_campaign_sequence
    \/ get_campaigns_by_lead_id
    \/ export_campaign_data
    \/ get_campaign_sequence_analytics
    \/ HttpResponse
    \/ HttpRequestError
    \/ Return
    \/ smartlead_lifespan_exit

SpecLifespan == InitLifespan /\ [][NextLifespan]_vars

(***************************************************************************)
(* src/utils.py: SmartleadClient._request called with arguments of the     *)
(* caller's choosing.                                                      *)
(***************************************************************************)
MaxSlashes == 2

Slashes(n) == [i \in 1..n |-> "/"]

EndpointCores == { <<"campaigns", "/">>, <<"leads", "/", "7", "/", "campaigns">> }

RequestParams ==
    { None,
      Dict(<< << <<"start_date">>, Dates[1] >> >>),
      Dict(<< << <<"api_key">>, Str(<<"other">>) >>, << <<"limit">>, Num(10) >> >>) }

RequestHeaders ==
    { None,
      EmptyDict,
      Dict(<< << <<"Accept">>, Str(<<"text/plain">>) >> >>),
      Dict(<< << <<"X-Request-Id">>, Str(<<"4", "2">>) >>,
              << <<"Content-Type">>, Str(<<"text/csv">>) >> >>) }

Requests ==
    { RequestArgs(m[1], Slashes(n) \o core, p, m[2], h) :
         m \in { <<"GET", None>>, <<"POST", Dict(<< << <<"status">>, Str(<<"PAUSED">>) >> >>)>> },
         n \in 0..MaxSlashes, core \in EndpointCores, p \in RequestParams,
         h \in RequestHeaders }

RequestClients ==
    { SmartleadClient(<<"key-1">>, DefaultApiUrl \o Slashes(n), None) : n \in 0..MaxSlashes }

InitRequest ==
    /\ client \in RequestClients
    /\ injected = InjectedOf(client)
    /\ lifespan = Lifespan("none", NoOutcome.exc)
    /\ env = Environ(None, None)
    /\ pc = "idle"
    /\ tool = "none"
    /\ args = NoArgs
    /\ wire = << >>
    /\ conn = "none"
    /\ response = NoResponse
    /\ outcome = NoOutcome
    /\ result = NoResult
    /\ calls = << >>
    /\ pool = << >>

\* _request called with r, up to the await of client.request
request ==
    /\ pc = "idle"
    /\ \E r \in Requests :
          /\ tool' = "_request"
          /\ args' = r
          /\ pc' = "await"
          /\ wire' = Append(wire, RequestSend(client, r))
          /\ conn' = IF RequestSend(client, r).close_client THEN "open" ELSE conn
          /\ UNCHANGED << client, response, outcome, result, injected, lifespan, env, concurrent >>

NextRequest ==
    \/ request
    \/ HttpResponse
    \/ HttpRequestError
    \/ Return

SpecRequest == InitRequest /\ [][NextRequest]_vars

(***************************************************************************)
(* src/main.py: tool invocations run together by the agent runtime on the  *)
(* one client of the lifespan context.  A coroutine runs without           *)
(* interruption from one await to the next: a call is suspended at         *)
(* client.request ("await") and, when _request opened the connection       *)
(* itself, at client.aclose() in the finally clause ("closing").           *)
(***************************************************************************)
MaxCalls == 2

CallIds == 1..MaxCalls

\* the frame of a call: its locals; conn is the connection it opened itself, 0 for none
NoCall ==
    [pc |-> "idle", tool |-> "none", args |-> NoArgs, wire |-> << >>, conn |-> 0,
     response |-> NoResponse, outcome |-> NoOutcome, result |-> NoResult]

\* client.<name>(...) as the tool function <name> calls it
ClientCall(name, a) ==
    CASE name = "list_campaigns" -> SmartleadClient_list_campaigns(a)
      [] name = "get_campaign" -> SmartleadClient_get_campaign(a)
      [] name = "create_campaign" -> SmartleadClient_create_campaign(a)
      [] name = "update_campaign_schedule" -> SmartleadClient_update_campaign_schedule(a)
      [] name = "update_campaign_settings" -> SmartleadClient_update_campaign_settings(a)
      [] name = "save_campaign_sequence" -> SmartleadClient_save_campaign_sequence(a)
      [] name = "patch_campaign_status" -> SmartleadClient_patch_campaign_status(a)
      [] name = "get_campaign_analytics" -> SmartleadClient_get_campaign_analytics(a)
      [] name = "get_campaign_sequence" -> SmartleadClient_get_campaign_sequence(a)
      [] name = "get_campaigns_by_lead_id" -> SmartleadClient_get_campaigns_by_lead_id(a)
      [] name = "export_campaign_data" -> SmartleadClient_export_campaign_data(a)
      [] name = "get_campaign_sequence_analytics" ->
            SmartleadClient_get_campaign_sequence_analytics(a)

\* the tool calls the agent runs together
ConcurrentInvocations ==
    { [tool |-> "list_campaigns", args |-> [ctx |-> "client"]],
      [tool |-> "patch_campaign_status",
       args |-> [ctx |-> "client", campaign_id |-> Str(<<"7">>),
                 status |-> Str(<<"PAUSED">>)]],
      [tool |-> "export_campaign_data",
       args |-> [ctx |-> "client", campaign_id |-> Str(<<"1", "2", "3">>)]],
      [tool |-> "get_campaign",
       args |-> [ctx |-> "no_lifespan_context", campaign |-> Str(<<"7">>)]] }

ConcurrentResponses ==
    { [status_code |-> 200, text |-> <<"{", Q, "ok", Q, ":", " ", "true", "}">>],
      [status_code |-> 400,
       text |-> <<"{", Q, "message", Q, ":", " ", Q, "Campaign not found", Q, "}">>],
      [status_code |-> 200, text |-> <<"id", ",", "email", "\n", "1", ",", "a@b.c">>] }

ConcurrentClients ==
    { SmartleadClient(<<"key-1">>, DefaultApiUrl, None),
      SmartleadClient(<<"key-1">>, DefaultApiUrl, AsyncClient(5)) }

\* the requests of the calls in flight other than call i
InFlight(i) ==
    { calls[j].wire[1] : j \in { k \in CallIds \ {i} : calls[k].pc \in {"await", "closing"} } }

\* _request keeping its default headers in one dict all calls update
CallSend_SharedHeaders(self, inflight, r) ==
    LET own == RequestSend(self, r)
        RECURSIVE Merge(_, _)
        Merge(d, rest) ==
            IF rest = {} THEN d
            ELSE LET w == CHOOSE x \in rest : TRUE
                 IN  Merge(DictUpdate(d, w.headers.o), rest \ {w})
        shared == Merge(RequestSend(self, [r EXCEPT !.headers = None]).headers, inflight)
    IN  [own EXCEPT !.headers = IF Truthy(r.headers) THEN DictUpdate(shared, r.headers.o)
                                ELSE shared]

\* _request up to the await, run while the requests inflight are outstanding: url,
\* params and default_headers are locals built afresh
CallSend(self, inflight, r) == RequestSend(self, r)

\* a connection every call uses once some call has opened it
OpenConnection_Cached(p) ==
    IF \E id \in DOMAIN p : p[id] = "open"
    THEN CHOOSE id \in DOMAIN p : p[id] = "open"
    ELSE CHOOSE id \in DOMAIN p : p[id] = "free" /\ \A j \in 1..(id - 1) : p[j] # "free"

\* httpx.AsyncClient(timeout=self.timeout): a new connection object
OpenConnection(p) ==
    CHOOSE id \in DOMAIN p : p[id] = "free" /\ \A j \in 1..(id - 1) : p[j] # "free"

InitConcurrent ==
    /\ client \in ConcurrentClients
    /\ injected = InjectedOf(client)
    /\ lifespan = Lifespan("serving", NoOutcome.exc)
    /\ env = Environ(Str(client.api_key), Str(client.api_url))
    /\ calls = [i \in CallIds |-> NoCall]
    /\ pool = [i \in CallIds |-> "free"]
    /\ pc = "idle"
    /\ tool = "none"
    /\ args = NoArgs
    /\ wire = << >>
    /\ conn = "none"
    /\ response = NoResponse
    /\ outcome = NoOutcome
    /\ result = NoResult

\* a tool function is called while others are suspended: it runs to the await of
\* client.request, or to its end when the context does not yield the client
CallInvoke ==
    \E i \in CallIds, inv \in ConcurrentInvocations :
        LET got == get_client_from_context(inv.args.ctx)
            sent == CallSend(client, InFlight(i), ClientCall(inv.tool, inv.args))
            id == IF sent.close_client THEN OpenConnection(pool) ELSE 0
        IN  /\ calls[i].pc = "idle"
            /\ IF got.raised
               THEN /\ calls' = [calls EXCEPT ![i] =
                                    [NoCall EXCEPT !.pc = "done", !.tool = inv.tool,
                                                   !.args = inv.args, !.outcome = got,
                                                   !.result = ToolBoundary(got)]]
                    /\ pool' = pool
               ELSE /\ calls' = [calls EXCEPT ![i] =
                                    [NoCall EXCEPT !.pc = "await", !.tool = inv.tool,
                                                   !.args = inv.args, !.wire = << sent >>,
                                                   !.conn = id]]
                    /\ pool' = IF id = 0 THEN pool ELSE [pool EXCEPT ![id] = "open"]
            /\ UNCHANGED << client, injected, lifespan, env, sequential >>

\* call i past client.request with got: suspended at client.aclose() when it opened the
\* connection itself, else over
CallResume(i, rsp, got) ==
    /\ calls' = [calls EXCEPT ![i] =
                    IF calls[i].wire[1].close_client
                    THEN [@ EXCEPT !.pc = "closing", !.response = rsp, !.outcome = got]
                    ELSE [@ EXCEPT !.pc = "done", !.response = rsp, !.outcome = got,
                                   !.result = ToolBoundary(got)]]
    /\ UNCHANGED << pool, client, injected, lifespan, env, sequential >>

\* client.request of a suspended call returns a response
CallHttpResponse ==
    \E i \in CallIds, r \in ConcurrentResponses :
        /\ calls[i].pc = "await"
        /\ CallResume(i, [kind |-> "response", status_code |-> r.status_code, text |-> r.text],
                      RequestReceive(r.status_code, r.text))

\* client.request of a suspended call raises httpx.RequestError
CallHttpRequestError ==
    \E i \in CallIds :
        /\ calls[i].pc = "await"
        /\ CallResume(i, [kind |-> "RequestError", status_code |-> 0, text |-> <<"timed out">>],
                      RequestFailed(<<"timed out">>))

\* client.aclose() of a call is over: its connection is closed, _request returns or
\* raises and the tool function makes its result
CallClosed ==
    \E i \in CallIds :
        /\ calls[i].pc = "closing"
        /\ pool' = [pool EXCEPT ![calls[i].conn] = "closed"]
        /\ calls' = [calls EXCEPT ![i] = [@ EXCEPT !.pc = "done",
                                                   !.result = ToolBoundary(calls[i].outcome)]]
        /\ UNCHANGED << client, injected, lifespan, env, sequential >>

\* the result of a call is handed to the agent; its frame and its connection object go
CallReturn ==
    \E i \in CallIds :
        /\ calls[i].pc = "done"
        /\ calls' = [calls EXCEPT ![i] = NoCall]
        /\ pool' = IF calls[i].conn = 0 THEN pool ELSE [pool EXCEPT ![calls[i].conn] = "free"]
        /\ UNCHANGED << client, injected, lifespan, env, sequential >>

NextConcurrent ==
    \/ CallInvoke
    \/ CallHttpResponse
    \/ CallHttpRequestError
    \/ CallClosed
    \/ CallReturn

SpecConcurrent == InitConcurrent /\ [][NextConcurrent]_vars

(***************************************************************************)
(* The claims.                                                             *)
(***************************************************************************)
\* the request this invocation put on the wire
Sent == wire[1]
HasSent == wire # << >>
Answered == pc = "done" /\ response.kind = "response"
Body == json_loads(response.text)

\* C1: every tool invocation ends by returning a string; whatever context resolution,
\* the client call and the formatting give, no exception propagates past the tool.
C1_ToolAlwaysReturnsString ==
    /\ result.kind # "raise"
    /\ pc = "done" => result.kind = "str"

\* C1 witness: the client call raised something other than the API error and the tool
\* still returned a string.
C1_Witness ==
    /\ pc = "done"
    /\ outcome.raised
    /\ outcome.exc.type = "AttributeError"
    /\ result.kind = "str"

\* the message the service provides in a body: the message string of a JSON object, the
\* raw text of a body that is not JSON, nothing otherwise
ServiceMessage(text) ==
    LET b == json_loads(text)
    IN  IF ~b.ok THEN text
        ELSE IF b.v.t = "dict" /\ DictGet(b.v, <<"message">>, None).t = "str"
        THEN DictGet(b.v, <<"message">>, None).s
        ELSE << >>

\* C2: for every response with status >= 400, whatever its body, the string the tool
\* returns contains the numeric status code and the service-provided message.
C2_ErrorStringHasStatusAndMessage ==
    (Answered /\ response.status_code >= 400) =>
        /\ result.kind = "str"
        /\ Contains(result.text, IntToText(response.status_code))
        /\ Contains(result.text, ServiceMessage(response.text))

\* C3 as stated: for every response with status < 400 whose body parses as JSON,
\* decoding the returned string as JSON yields the value the service sent.
C3_RoundTripAnyJson ==
    (Answered /\ response.status_code < 400 /\ Body.ok) =>
        /\ result.kind = "str"
        /\ json_loads(result.text).ok
        /\ json_loads(result.text).v = Body.v

\* C3 amended: for a body that parses as a JSON object, array or integer the returned
\* string decodes to the value the service sent; for a string, a boolean or null it is
\* the direct string cast: the characters of the string, True or False, None.
C3_RoundTripContainers ==
    (Answered /\ response.status_code < 400 /\ Body.ok) =>
        /\ result.kind = "str"
        /\ Body.v.t \in {"dict", "list", "int"} =>
              /\ json_loads(result.text).ok
              /\ json_loads(result.text).v = Body.v
        /\ Body.v.t = "str" => result.text = Body.v.s
        /\ Body.v.t = "bool" => result.text = IF Body.v.b THEN <<"True">> ELSE <<"False">>
        /\ Body.v.t = "None" => result.text = <<"None">>

\* C3 witness: a compact JSON object came back with status 200 and the tool returned
\* another text, which decodes to the same value.
C3_Witness ==
    /\ Answered
    /\ response.status_code = 200
    /\ Body.ok
    /\ Body.v.t = "dict"
    /\ Len(Body.v.o) = 2
    /\ result.text # response.text
    /\ json_loads(result.text).v = Body.v

\* C4: when the HTTP call fails at the network level the client raises the API error
\* with status code 500 and a message beginning "Request error:", and the tool returns
\* an error string containing 500 and that message.
C4_NetworkFailureIs500 ==
    (pc = "done" /\ response.kind = "RequestError") =>
        /\ outcome.raised
        /\ outcome.exc.type = "SmartleadAPIError"
        /\ outcome.exc.status_code = 500
        /\ outcome.exc.message = Str(<<"Request error: ">> \o response.text)
        /\ result.kind = "str"
        /\ result.text = <<"Error (", "5", "0", "0", "): ", "Request error: ">> \o response.text

\* C4 witness: list_campaigns timed out.
C4_Witness ==
    /\ pc = "done"
    /\ tool = "list_campaigns"
    /\ response.kind = "RequestError"
    /\ response.text = <<"timed out">>
    /\ result.kind = "str"

\* C5: every failure of the request operation is raised as the structured API error;
\* the request operation raises no other exception type.
C5_OnlyAPIErrorRaised ==
    (pc = "done" /\ HasSent /\ outcome.raised) => outcome.exc.type = "SmartleadAPIError"

\* the texts of the configuration error
ConfigurationErrors ==
    { <<"Request context not properly initialized">>,
      <<"Smartlead client not found in context">>,
      <<"Invalid Smartlead client type in context">> }

\* C6: a tool called with a missing or invalid client context returns an error string
\* carrying the configuration-error text, raises nothing and issues no HTTP request.
C6_BadContextIsErrorString ==
    (tool # "none" /\ args.ctx # "client") =>
        /\ pc = "done"
        /\ ~HasSent
        /\ conn = "none"
        /\ result.kind = "str"
        /\ \E text \in ConfigurationErrors : result.text = <<"Error: ">> \o text

\* C6 witness: get_campaign called with a context whose client is not a SmartleadClient.
C6_Witness ==
    /\ pc = "done"
    /\ tool = "get_campaign"
    /\ args.ctx = "not_a_SmartleadClient"
    /\ result.text = <<"Error: ", "Invalid Smartlead client type in context">>

\* the optional arguments of the tool running
OptionalOf(name) ==
    CASE name = "update_campaign_schedule" -> Range(ScheduleOptional)
      [] name = "update_campaign_settings" -> Range(SettingsOptional)
      [] name = "get_campaign_sequence_analytics" -> {"time_zone"}
      [] OTHER -> {}

\* the keys a tool always sends in the body, and in the query
RequiredBody(name) ==
    CASE name = "update_campaign_schedule" ->
            {<<"timezone">>, <<"days_of_the_week">>, <<"start_hour">>, <<"end_hour">>}
      [] name = "save_campaign_sequence" -> {<<"sequences">>}
      [] name = "patch_campaign_status" -> {<<"status">>}
      [] name = "create_campaign" -> DictKeys(args.campaign_data)
      [] OTHER -> {}

RequiredQuery(name) ==
    CASE name \in {"get_campaign_analytics", "get_campaign_sequence_analytics"} ->
            {<<"api_key">>, <<"start_date">>, <<"end_date">>}
      [] OTHER -> {<<"api_key">>}

SentBodyKeys == IF Sent.json = None THEN {} ELSE DictKeys(Sent.json)
SentQueryKeys == DictKeys(Sent.params)
ProvidedKeys == { <<k>> : k \in { x \in OptionalOf(tool) : args[x] # None } }

\* C7: an optional argument left unset is omitted from the body and the query, never
\* sent as null: the keys sent are among the required keys, the provided optional keys
\* and api_key in the query.
C7_UnsetOptionalOmitted ==
    HasSent =>
        /\ SentBodyKeys \subseteq RequiredBody(tool) \cup ProvidedKeys
        /\ SentQueryKeys \subseteq RequiredQuery(tool) \cup ProvidedKeys
        /\ \A k \in OptionalOf(tool) :
              args[k] = None => <<k>> \notin SentBodyKeys \cup SentQueryKeys
        /\ \A k \in OptionalOf(tool) :
              /\ <<k>> \in SentBodyKeys => DictGet(Sent.json, <<k>>, None) # None
              /\ <<k>> \in SentQueryKeys => DictGet(Sent.params, <<k>>, None) # None

\* C7 witness: update_campaign_settings with client_id provided and name left unset sent
\* a body with the one key client_id.
C7_Witness ==
    /\ HasSent
    /\ tool = "update_campaign_settings"
    /\ args.name = None
    /\ args.client_id # None
    /\ SentBodyKeys = {<<"client_id">>}

\* C8: every optional argument the caller provides, falsy values included, is folded
\* into the body or the query with exactly the provided value.
C8_ProvidedOptionalSent ==
    HasSent =>
        \A k \in OptionalOf(tool) :
            args[k] # None =>
                IF tool = "get_campaign_sequence_analytics"
                THEN /\ <<k>> \in SentQueryKeys
                     /\ DictGet(Sent.params, <<k>>, None) = args[k]
                ELSE /\ <<k>> \in SentBodyKeys
                     /\ DictGet(Sent.json, <<k>>, None) = args[k]

\* C9: update_campaign_schedule sends a body whose keys are exactly timezone,
\* days_of_the_week, start_hour, end_hour and the provided ones of min_time_btw_emails,
\* max_new_leads_per_day, schedule_start_time; with no optional the four required keys.
C9_ScheduleBodyKeys ==
    (HasSent /\ tool = "update_campaign_schedule") =>
        /\ Sent.json.t = "dict"
        /\ SentBodyKeys = RequiredBody(tool) \cup ProvidedKeys
        /\ Len(Sent.json.o) = 4 + Cardinality(ProvidedKeys)
        /\ ProvidedKeys = {} =>
              /\ Len(Sent.json.o) = 4
              /\ <<"min_time_btw_emails">> \notin SentBodyKeys

\* C9 witness: the schedule of the scenario, no optional field.
C9_Witness ==
    /\ HasSent
    /\ tool = "update_campaign_schedule"
    /\ args.min_time_btw_emails = None
    /\ args.max_new_leads_per_day = None
    /\ args.schedule_start_time = None
    /\ args.timezone = Str(<<"Australia", "/", "Sydney">>)
    /\ SentBodyKeys = {<<"timezone">>, <<"days_of_the_week">>, <<"start_hour">>, <<"end_hour">>}

OkTrue == Dict(<< << <<"ok">>, Bool(TRUE) >> >>)

\* C10: patch_campaign_status(c, s) issues a POST to campaigns/<c>/status with the body
\* {"status": s}; answered 200 with the JSON object {"ok": true}, the tool returns the
\* string {"ok": true}.
C10_PatchStatus ==
    (HasSent /\ tool = "patch_campaign_status") =>
        /\ Sent.method = "POST"
        /\ Sent.url = DefaultApiUrl \o <<"/", "campaigns", "/">> \o args.campaign_id.s
                          \o <<"/", "status">>
        /\ Sent.json = Dict(<< << <<"status">>, args.status >> >>)
        /\ (Answered /\ response.status_code = 200 /\ Body.ok /\ Body.v = OkTrue) =>
              result = Returned(<<"{", Q, "ok", Q, ":", " ", "true", "}">>)

\* C10 witness: patch_campaign_status("123", "PAUSED") answered 200 with {"ok":true}.
C10_Witness ==
    /\ Answered
    /\ tool = "patch_campaign_status"
    /\ args.campaign_id = Str(<<"1", "2", "3">>)
    /\ args.status = Str(<<"PAUSED">>)
    /\ response.status_code = 200
    /\ response.text = <<"{", Q, "ok", Q, ":", "true", "}">>
    /\ result.text = <<"{", Q, "ok", Q, ":", " ", "true", "}">>

RECURSIVE Mentions(_, _)
\* the text occurs in v: in a string, or in a key or a value of a container
Mentions(v, text) ==
    CASE v.t = "str"  -> Contains(v.s, text)
      [] v.t = "list" -> \E i \in 1..Len(v.a) : Mentions(v.a[i], text)
      [] v.t = "dict" -> \E i \in 1..Len(v.o) :
                            Contains(v.o[i][1], text) \/ Mentions(v.o[i][2], text)
      [] OTHER -> FALSE

\* C11: every request put on the wire, GET or POST, carries the client's API key as the
\* query parameter api_key; the key occurs neither in the JSON body nor in any header,
\* and neither of them has an api_key entry.
C11_ApiKeyInQueryOnly ==
    \A i \in 1..Len(wire) :
        /\ wire[i].method \in {"GET", "POST"}
        /\ DictGet(wire[i].params, <<"api_key">>, None) = Str(client.api_key)
        /\ ~Mentions(wire[i].headers, client.api_key)
        /\ <<"api_key">> \notin DictKeys(wire[i].headers)
        /\ wire[i].json # None =>
              /\ ~Mentions(wire[i].json, client.api_key)
              /\ <<"api_key">> \notin DictKeys(wire[i].json)

\* C11 witness: a POST with a JSON body is on the wire, the key in its query.
C11_Witness ==
    /\ pc = "await"
    /\ tool = "create_campaign"
    /\ Sent.method = "POST"
    /\ Sent.json \in CampaignData
    /\ Sent.params = Dict(<< << <<"api_key">>, Str(<<"key-2">>) >> >>)

DefaultHeaderNames == { <<"Content-Type">>, <<"Accept">> }

\* C12: the headers sent are the defaults Content-Type: application/json and
\* Accept: application/json merged with the caller's headers: every caller header is
\* sent with the caller's value, a default the caller does not name keeps its value, and
\* no other header is sent; a caller passing no headers sends exactly the two defaults.
C12_HeadersMerged ==
    (HasSent /\ tool = "_request") =>
        LET caller == IF args.headers = None THEN EmptyDict ELSE args.headers
        IN  /\ DictKeys(Sent.headers) = DefaultHeaderNames \cup DictKeys(caller)
            /\ \A k \in DictKeys(caller) :
                  DictGet(Sent.headers, k, None) = DictGet(caller, k, None)
            /\ \A k \in DefaultHeaderNames \ DictKeys(caller) :
                  DictGet(Sent.headers, k, None) = Str(<<"application/json">>)
            /\ caller = EmptyDict =>
                  Sent.headers = Dict(<< << <<"Content-Type">>, Str(<<"application/json">>) >>,
                                         << <<"Accept">>, Str(<<"application/json">>) >> >>)

\* C12 witness: the caller overrides Content-Type and adds a header of its own.
C12_Witness ==
    /\ pc = "await"
    /\ tool = "_request"
    /\ args.headers = Dict(<< << <<"X-Request-Id">>, Str(<<"4", "2">>) >>,
                              << <<"Content-Type">>, Str(<<"text/csv">>) >> >>)
    /\ Sent.headers = Dict(<< << <<"Content-Type">>, Str(<<"text/csv">>) >>,
                              << <<"Accept">>, Str(<<"application/json">>) >>,
                              << <<"X-Request-Id">>, Str(<<"4", "2">>) >> >>)

CsvBody == <<"id", ",", "email", "\n", "1", ",", "a@b.c">>

\* C13: a response with a status below 400 whose body is not JSON makes the client
\* return {"message": <the raw body text>}; export_campaign_data sends Accept: text/plain
\* next to Content-Type: application/json, returns the parsed value when the body is
\* JSON, and the wrapped raw text when it is not.
C13_NonJsonSuccessWrapped ==
    /\ (Answered /\ response.status_code < 400 /\ ~Body.ok) =>
          outcome = Returns(Dict(<< << <<"message">>, Str(response.text) >> >>))
    /\ (HasSent /\ tool = "export_campaign_data") =>
          Sent.headers = Dict(<< << <<"Content-Type">>, Str(<<"application/json">>) >>,
                                 << <<"Accept">>, Str(<<"text/plain">>) >> >>)
    /\ (Answered /\ tool = "export_campaign_data" /\ response.status_code < 400 /\ Body.ok) =>
          outcome = Returns(Body.v)

\* C13 witness: export_campaign_data answered 399 with a CSV body returns the wrapped text.
C13_Witness ==
    /\ Answered
    /\ tool = "export_campaign_data"
    /\ response.status_code = 399
    /\ response.text = CsvBody
    /\ ~Body.ok
    /\ outcome = Returns(Dict(<< << <<"message">>, Str(CsvBody) >> >>))
    /\ result.kind = "str"

\* data.get(k, default) as the claim reads it: a body without field k gives the default
FieldOr(data, k, default) == IF data.t = "dict" THEN DictGet(data, k, default) ELSE default

\* C14: a response is a failure exactly when its status is 400 or above; the error raised
\* carries that status, the message field of the parsed body or "Unknown error" when it
\* has none, and the errors field of the parsed body or an empty structure.
C14_FailureCarriesStatusAndBody ==
    Answered =>
        LET data == IF Body.ok THEN Body.v
                    ELSE Dict(<< << <<"message">>, Str(response.text) >> >>)
        IN  /\ outcome.raised <=> response.status_code >= 400
            /\ outcome.raised =>
                  outcome.exc = SmartleadAPIError(
                                    response.status_code,
                                    FieldOr(data, <<"message">>, Str(<<"Unknown error">>)),
                                    FieldOr(data, <<"errors">>, EmptyDict))

\* C15: a client constructed with a connection sends every request over it, opening none
\* of its own and leaving the injected one open, whether the call succeeds or fails; a
\* client constructed without one has a connection of its own open while a request is
\* in flight and closed by the time the call is over.
C15_ConnectionOwnership ==
    /\ client.http_client # None =>
          /\ conn = "none"
          /\ injected = "open"
          /\ \A i \in 1..Len(wire) : ~wire[i].close_client
    /\ client.http_client = None =>
          /\ injected = "absent"
          /\ \A i \in 1..Len(wire) : wire[i].close_client
          /\ ~HasSent => conn = "none"
          /\ pc = "await" => conn = "open"
          /\ (pc = "done" /\ HasSent) => conn = "closed"

\* C15 witness: a call over an injected connection has failed and the connection is open.
C15_Witness ==
    /\ client.http_client = AsyncClient(5)
    /\ pc = "done"
    /\ HasSent
    /\ outcome.raised
    /\ response.kind = "RequestError"
    /\ injected = "open"
    /\ conn = "none"

\* C16: one client is constructed at startup and shared until shutdown; the shutdown
\* step releases it and completes without raising.
C16_ShutdownReleasesClient ==
    /\ lifespan.at \in {"start", "failed"} => client = None
    /\ lifespan.at \in {"serving", "exited", "exit_raised"} =>
          client = SmartleadClient(env.SMARTLEAD_API_KEY.s,
                                   getenv(env, "SMARTLEAD_API_URL", Str(DefaultApiUrl)).s,
                                   None)
    /\ lifespan.at # "exit_raised"

\* C17: a tool invocation issues at most one HTTP request: exactly one once the client
\* is resolved, none when it is not; a failed request ends the call with that request's
\* failure, no second request being sent.
C17_AtMostOneRequest ==
    /\ Len(wire) <= 1
    /\ tool # "none" => (HasSent <=> args.ctx = "client")
    /\ (pc = "done" /\ response.kind = "response") =>
          outcome = RequestReceive(response.status_code, response.text)
    /\ (pc = "done" /\ response.kind = "RequestError") =>
          outcome = RequestFailed(response.text)

\* C17 witness: the one request of a get_campaign call failed in the network and the
\* call is over with that failure.
C17_Witness ==
    /\ pc = "done"
    /\ tool = "get_campaign"
    /\ Len(wire) = 1
    /\ response.kind = "RequestError"
    /\ response.text = <<"All connection attempts failed">>
    /\ outcome.raised
    /\ outcome.exc.status_code = 500

\* the endpoint table: the method of each operation
TableMethod(name) ==
    IF name \in {"create_campaign", "update_campaign_schedule", "update_campaign_settings",
                 "save_campaign_sequence", "patch_campaign_status"}
    THEN "POST" ELSE "GET"

\* the endpoint table: the path of each operation, id being the text of its identifier
TablePath(name, id) ==
    CASE name = "list_campaigns" -> <<"campaigns", "/">>
      [] name = "get_campaign" -> <<"campaigns", "/">> \o id
      [] name = "create_campaign" -> <<"campaigns", "/", "create">>
      [] name = "update_campaign_schedule" -> <<"campaigns", "/">> \o id \o <<"/", "schedule">>
      [] name = "update_campaign_settings" -> <<"campaigns", "/">> \o id \o <<"/", "settings">>
      [] name = "save_campaign_sequence" -> <<"campaigns", "/">> \o id \o <<"/", "sequences">>
      [] name = "patch_campaign_status" -> <<"campaigns", "/">> \o id \o <<"/", "status">>
      [] name = "get_campaign_analytics" ->
            <<"campaigns", "/">> \o id \o <<"/", "analytics-by-date">>
      [] name = "get_campaign_sequence" -> <<"campaigns", "/">> \o id \o <<"/", "sequences">>
      [] name = "get_campaign_sequence_analytics" ->
            <<"campaigns", "/">> \o id \o <<"/", "sequence-analytics">>
      [] name = "get_campaigns_by_lead_id" -> <<"leads", "/">> \o id \o <<"/", "campaigns">>
      [] name = "export_campaign_data" -> <<"campaigns", "/">> \o id \o <<"/", "leads-export">>

\* the identifier the running tool was called with
CalledId ==
    CASE tool \in {"list_campaigns", "create_campaign"} -> << >>
      [] tool = "get_campaign" -> args.campaign.s
      [] tool = "get_campaign_analytics" -> args.campaignId.s
      [] tool = "get_campaigns_by_lead_id" -> args.lead_id.s
      [] OTHER -> args.campaign_id.s

\* C18: each operation sends the method and the path the endpoint table gives it; a
\* request with a JSON body is a POST and a request with a query parameter other than
\* api_key is a GET.
C18_EndpointTable ==
    HasSent =>
        /\ Sent.method = TableMethod(tool)
        /\ Sent.url = DefaultApiUrl \o <<"/">> \o TablePath(tool, CalledId)
        /\ Sent.json # None => Sent.method = "POST"
        /\ SentQueryKeys # { <<"api_key">> } => Sent.method = "GET"

\* C18 witness: the campaigns of lead 7 are asked for with GET leads/7/campaigns.
C18_Witness ==
    /\ pc = "await"
    /\ tool = "get_campaigns_by_lead_id"
    /\ args.lead_id = Str(<<"7">>)
    /\ Sent.method = "GET"
    /\ Sent.url = DefaultApiUrl \o <<"/", "leads", "/", "7", "/", "campaigns">>
    /\ Sent.json = None

KeyAbsent == env.SMARTLEAD_API_KEY \in { None, Str(<< >>) }

\* C19: startup fails with ValueError, constructing no client and serving no tool, exactly
\* when SMARTLEAD_API_KEY is unset or empty; every request put on the wire carries the
\* non-empty key of the environment.
C19_KeyPresentBeforeRequest ==
    /\ (lifespan.at # "start" /\ KeyAbsent) => lifespan.at = "failed"
    /\ lifespan.at = "failed" =>
          /\ KeyAbsent
          /\ lifespan.exc.type = "ValueError"
          /\ client = None
          /\ tool = "none"
    /\ \A i \in 1..Len(wire) :
          /\ ~KeyAbsent
          /\ DictGet(wire[i].params, <<"api_key">>, None) = env.SMARTLEAD_API_KEY

\* C19 witness: startup has failed on an empty SMARTLEAD_API_KEY.
C19_Witness ==
    /\ lifespan.at = "failed"
    /\ env.SMARTLEAD_API_KEY = Str(<< >>)
    /\ lifespan.exc.message =
          Str(<<"Missing required environment variables: ", "SMARTLEAD_API_KEY">>)
    /\ wire = << >>

\* C20: the URL requested is the base URL without its trailing slashes, one slash, and
\* the path without its leading slashes, however many of either there are; the rest of
\* the path, a trailing slash included, is kept as it is.
C20_UrlJoin ==
    (HasSent /\ tool = "_request") =>
        \E n \in 0..MaxSlashes, k \in 0..MaxSlashes, core \in EndpointCores :
            /\ client.api_url = DefaultApiUrl \o Slashes(n)
            /\ args.endpoint = Slashes(k) \o core
            /\ Sent.url = DefaultApiUrl \o <<"/">> \o core

\* C20 witness: two trailing slashes on the base URL meet two leading slashes on
\* campaigns/ and the URL requested ends in /campaigns/.
C20_Witness ==
    /\ pc = "await"
    /\ tool = "_request"
    /\ client.api_url = DefaultApiUrl \o <<"/", "/">>
    /\ args.endpoint = <<"/", "/", "campaigns", "/">>
    /\ Sent.url = DefaultApiUrl \o <<"/", "campaigns", "/">>

\* what the client operation of a call whose request is over gave its tool function
CallGot(c) ==
    IF c.response.kind = "response"
    THEN RequestReceive(c.response.status_code, c.response.text)
    ELSE RequestFailed(c.response.text)

\* C21: with several invocations in flight on the one client, in every interleaving the
\* request of each call is the one its own tool and arguments give, and the string it
\* returns is the one its own response (or its own context failure) gives.
C21_CallsIndependent ==
    \A i \in DOMAIN calls :
        LET c == calls[i]
        IN  /\ c.wire # << >> =>
                  c.wire = << RequestSend(client, ClientCall(c.tool, c.args)) >>
            /\ (c.pc = "done" /\ c.wire # << >>) => c.result = ToolBoundary(CallGot(c))
            /\ (c.pc = "done" /\ c.wire = << >>) =>
                  c.result = ToolBoundary(get_client_from_context(c.args.ctx))
            /\ c.pc = "done" => c.result.kind = "str"

\* C21 witness: list_campaigns started while export_campaign_data was in flight has its
\* answer and the default Accept header; the export still waits with its own header.
C21_Witness ==
    /\ calls[1].pc = "await"
    /\ calls[1].tool = "export_campaign_data"
    /\ DictGet(calls[1].wire[1].headers, <<"Accept">>, None) = Str(<<"text/plain">>)
    /\ calls[2].pc = "done"
    /\ calls[2].tool = "list_campaigns"
    /\ DictGet(calls[2].wire[1].headers, <<"Accept">>, None) = Str(<<"application/json">>)
    /\ calls[2].result.text = <<"{", Q, "ok", Q, ":", " ", "true", "}">>

\* the request and the result string a call has whatever calls came before it
SameAsFirstCall ==
    /\ HasSent => wire = << RequestSend(client, ClientCall(tool, args)) >>
    /\ (pc = "done" /\ HasSent) =>
          result = ToolBoundary(IF response.kind = "response"
                                THEN RequestReceive(response.status_code, response.text)
                                ELSE RequestFailed(response.text))
    /\ (pc = "done" /\ ~HasSent) => result = ToolBoundary(get_client_from_context(args.ctx))

\* C22: no operation, successful or failed, changes the client's api key, base URL,
\* timeout or injected connection, and after any sequence of calls the request and the
\* result string of a call are those its arguments and its response alone give.
C22_ConfigUnchangedNoCarryOver ==
    /\ []SameAsFirstCall
    /\ [][client' = client]_vars

\* C22 witness: a call has failed and the client is one of the clients constructed.
C22_Witness ==
    /\ pc = "done"
    /\ HasSent
    /\ outcome.raised
    /\ response.status_code = 503
    /\ client = SmartleadClient(<<"key-1">>, DefaultApiUrl \o <<"/">>, AsyncClient(5))

\* C23: on success a tool returns, for a JSON object or array, its JSON text, which
\* holds no newline character whatever strings the value contains; for a string the
\* string itself, for an integer its digits, for a boolean True or False, for null None.
C23_SingleLineOrStrCast ==
    (pc = "done" /\ HasSent /\ ~outcome.raised) =>
        LET v == outcome.value
        IN  /\ result.kind = "str"
            /\ v.t \in {"dict", "list"} =>
                  /\ result.text = json_dumps(v)
                  /\ "\n" \notin Range(result.text)
                  /\ json_loads(result.text).ok
                  /\ json_loads(result.text).v = v
            /\ v.t = "str" => result.text = v.s
            /\ v.t = "int" => result.text = IntToText(v.n)
            /\ v.t = "bool" => result.text = IF v.b THEN <<"True">> ELSE <<"False">>
            /\ v.t = "None" => result.text = <<"None">>

\* C23 witness: a CSV body answered with 200 is returned as one line of JSON, the
\* newline of the body escaped.
C23_Witness ==
    /\ Answered
    /\ response.status_code = 200
    /\ response.text = CsvBody
    /\ "\n" \in Range(outcome.value.o[1][2].s)
    /\ result.text = <<"{", Q, "message", Q, ":", " ", Q,
                       "id", ",", "email", "\\", "n", "1", ",", "a@b.c", Q, "}">>

\* C24: every HTTP call is issued with the timeout the client is configured with, over a
\* connection of its own and over an injected connection alike.
C24_ConfiguredTimeoutOnEveryCall ==
    \A i \in 1..Len(wire) : wire[i].timeout = client.timeout

\* a call that opened its own connection and is over, by result or by error, has closed it
ClosedWhenOver ==
    (HasSent /\ Sent.close_client /\ (pc = "done" \/ result.kind # "none")) => conn = "closed"

\* C25: the connection a request opened is closed in the step that ends the request,
\* whether it ends with a response below 400, with the error of a response of 400 or
\* above, or with a network failure; it is closed from open, once, and the tool has its
\* result or error only with the connection closed.
C25_TransientClosedOnce ==
    /\ []ClosedWhenOver
    /\ [][/\ (pc = "await" /\ pc' = "done" /\ Sent.close_client) =>
                (conn = "open" /\ conn' = "closed")
          /\ (conn' = "closed" /\ conn # "closed") => (conn = "open" /\ pc = "await")
          /\ conn = "closed" => (conn' = "closed" \/ (conn' = "none" /\ pc' = "idle"))]_vars

\* C25 witness: a request over its own connection ended with the API error of a 400
\* response and the connection is closed.
C25_Witness ==
    /\ Answered
    /\ Sent.close_client
    /\ response.status_code = 400
    /\ outcome.raised
    /\ outcome.exc.type = "SmartleadAPIError"
    /\ conn = "closed"

NonEmptyDetails(e) == e.details \notin { None, EmptyDict, List(<< >>) }

\* C26: the string returned for a structured API error is Error (<status>): <message>,
\* followed by a Details: section (the details as indented JSON) exactly when the
\* details are non-empty; for any other exception it is Error: <text of the exception>.
C26_ErrorStringFormat ==
    (pc = "done" /\ outcome.raised) =>
        LET e == outcome.exc
        IN  IF e.type = "SmartleadAPIError"
            THEN /\ result.text =
                       <<"Error (">> \o IntToText(e.status_code) \o <<"): ">> \o PyStr(e.message)
                       \o (IF NonEmptyDetails(e)
                           THEN <<"\n", "Details: ">> \o json_dumps_indent2(e.details)
                           ELSE << >>)
                 /\ "Details: " \in Range(result.text) <=> NonEmptyDetails(e)
            ELSE result.text = <<"Error: ">> \o e.message.s

\* C26 witness: a 400 answer with a message and an errors object gives the status, the
\* message and a Details: section.
C26_Witness ==
    /\ Answered
    /\ response.status_code = 400
    /\ outcome.exc.type = "SmartleadAPIError"
    /\ NonEmptyDetails(outcome.exc)
    /\ SubSeq(result.text, 1, 8) =
          <<"Error (", "4", "0", "0", "): ", "Invalid", "\n", "Details: ">>

\* C27: a response of status 400 or above whose body is not JSON raises the API error
\* with that status, the raw body text as its message and empty details; its message is
\* not "Unknown error".
C27_NonJsonErrorBodyIsMessage ==
    (Answered /\ response.status_code >= 400 /\ ~Body.ok) =>
        /\ outcome = Raises(SmartleadAPIError(response.status_code, Str(response.text),
                                              EmptyDict))
        /\ outcome.exc.message # Str(<<"Unknown error">>)
        /\ result.text = <<"Error (">> \o IntToText(response.status_code) \o <<"): ">>
                         \o response.text

\* C27 witness: 503 with the body Bad Gateway is surfaced as Error (503): Bad Gateway.
C27_Witness ==
    /\ Answered
    /\ response.status_code = 503
    /\ response.text = <<"Bad Gateway">>
    /\ outcome.exc.message = Str(<<"Bad Gateway">>)
    /\ outcome.exc.details = EmptyDict
    /\ result.text = <<"Error (", "5", "0", "3", "): ", "Bad Gateway">>

\* C28: the query sent holds the caller's parameters and api_key and nothing else; every
\* caller parameter other than api_key is sent with the caller's value, and api_key is
\* the client's key even when the caller passed an api_key of its own.
C28_QueryIsCallerPlusKey ==
    (HasSent /\ tool = "_request") =>
        LET caller == IF args.params = None THEN EmptyDict ELSE args.params
        IN  /\ SentQueryKeys = DictKeys(caller) \cup { <<"api_key">> }
            /\ \A k \in DictKeys(caller) \ { <<"api_key">> } :
                  DictGet(Sent.params, k, None) = DictGet(caller, k, None)
            /\ DictGet(Sent.params, <<"api_key">>, None) = Str(client.api_key)

\* C28 witness: the caller's api_key is replaced by the client's and its limit is kept.
C28_Witness ==
    /\ pc = "await"
    /\ tool = "_request"
    /\ args.params # None
    /\ DictGet(args.params, <<"api_key">>, None) = Str(<<"other">>)
    /\ Sent.params = Dict(<< << <<"api_key">>, Str(<<"key-1">>) >>,
                             << <<"limit">>, Num(10) >> >>)

\* the calls that have put a request on the wire and not yet returned to the agent
Requesting == { i \in DOMAIN calls : calls[i].wire # << >> }

\* C29: with the client the lifespan builds (no injected connection), every call that
\* sends a request has a connection of its own, different from that of every other
\* call; it stays open until that call itself closes it, whatever the other calls do.
C29_NoSharedConnection ==
    client.http_client = None =>
        /\ \A i \in Requesting : calls[i].conn # 0
        /\ \A i, j \in Requesting : i # j => calls[i].conn # calls[j].conn
        /\ \A i \in Requesting :
              /\ calls[i].pc \in {"await", "closing"} => pool[calls[i].conn] = "open"
              /\ calls[i].pc = "done" => pool[calls[i].conn] = "closed"

\* C29 witness: one call is over and has closed its connection while the other, still
\* waiting for its response, has its own connection open.
C29_Witness ==
    /\ client.http_client = None
    /\ calls[1].pc = "done"
    /\ calls[1].conn # 0
    /\ pool[calls[1].conn] = "closed"
    /\ calls[2].pc = "await"
    /\ calls[2].conn # 0
    /\ pool[calls[2].conn] = "open"

====
